---- MODULE Spec2Model ----
(***************************************************************************)
(* Model of the warthog load balancer client: the command objects of       *)
(* warthog/core.py (one request each, parsed into a result or an           *)
(* exception) and the facade of warthog/client.py (session_context,        *)
(* get_status, get_connections, disable_server, enable_server and their    *)
(* retry / polling loops).  The remote load balancer is an adversary: the  *)
(* reply to every request is chosen nondeterministically.                  *)
(***************************************************************************)
EXTENDS Naturals, Integers, Sequences, FiniteSets, TLC

\* ---------------------------------------------------------------- bounds
\* max_retries arguments range over 0..MaxRetries
MaxRetries == 2
\* cur_conns values in a statistics reply range over 0..MaxConns
MaxConns == 2
\* number of facade operations invoked one after the other
MaxCalls == 2

\* -------------------------------------------------------------- constants
STATUS_ENABLED == "enabled"

STATUS_DISABLED == "disabled"

\* error codes the remote may put in a failed response
Codes == {1, 2}

\* warthog.core.TRANSIENT_ERRORS (referenced by client.py, not defined in
\* the core.py at hand): a fixed set of retryable error codes
TRANSIENT_ERRORS == {1}

\* subclasses of warthog.exceptions.WarthogApiError: every exception the
\* commands raise from a failed response
ApiErrorTypes ==
  {"WarthogAuthFailureError", "WarthogAuthCloseError", "WarthogNodeEnableError",
   "WarthogNodeDisableError", "WarthogNodeStatusError"}

\* ------------------------------------------------------ values in flight
NoExc == [type |-> "none", api_code |-> 0]

Exc(t, code) == [type |-> t, api_code |-> code]

NoRet == [kind |-> "none", status |-> "", conns |-> 0, flag |-> FALSE]

RetStatus(s) == [kind |-> "status", status |-> s, conns |-> 0, flag |-> FALSE]

RetConns(n) == [kind |-> "conns", status |-> "", conns |-> n, flag |-> FALSE]

RetBool(b) == [kind |-> "bool", status |-> "", conns |-> 0, flag |-> b]

\* outcome of one send(): a returned value or a raised exception
Returned(v) == [ok |-> TRUE, val |-> v, exc |-> NoExc]

Raised(e) == [ok |-> FALSE, val |-> NoRet, exc |-> e]

\* ------------------------------------------------------------ the remote
\* The transport either fails (requests raises, or the body is not JSON) or
\* hands back a decoded JSON object.  Of the object the commands look at: the
\* presence and value of the expected top-level key, and the "response"
\* section with its status and error code.
TransportFailure ==
  [kind |-> "transport", has_key |-> FALSE, val |-> 0, response |-> "absent", code |-> 0]

JsonReplies(vals) ==
  [kind : {"json"}, has_key : BOOLEAN, val : vals,
   response : {"absent", "OK", "fail"}, code : Codes]

Replies(vals) == {TransportFailure} \cup JsonReplies(vals)

\* ------------------------------------------------------------ core.py
\* the status of the response section is not looked at
extract_error_message_unchecked(r, excType) == Exc(excType, r.code)

\* extract_error_message: (msg, code) of a failed response, ValueError else
extract_error_message(r, excType) ==
  IF r.response = "fail" THEN Exc(excType, r.code) ELSE Exc("ValueError", 0)

\* json['response'] followed by extract_error_message and the raise
RaiseFromResponse(r, excType) ==
  IF r.response = "absent" THEN Raised(Exc("KeyError", 0))
  ELSE Raised(extract_error_message(r, excType))

SessionStartSend(r) ==
  IF r.kind = "transport" THEN Raised(Exc("TransportError", 0))
  ELSE IF ~r.has_key THEN RaiseFromResponse(r, "WarthogAuthFailureError")
  ELSE Returned(r.val)

SessionEndSend(r) ==
  IF r.kind = "transport" THEN Raised(Exc("TransportError", 0))
  ELSE IF r.response = "absent" THEN Raised(Exc("KeyError", 0))
  ELSE IF r.response = "fail" THEN RaiseFromResponse(r, "WarthogAuthCloseError")
  ELSE Returned(RetBool(TRUE))

NodeEnableSend(r) ==
  IF r.kind = "transport" THEN Raised(Exc("TransportError", 0))
  ELSE IF r.response = "absent" THEN Raised(Exc("KeyError", 0))
  ELSE IF r.response = "fail" THEN RaiseFromResponse(r, "WarthogNodeEnableError")
  ELSE Returned(RetBool(TRUE))

NodeDisableSend(r) ==
  IF r.kind = "transport" THEN Raised(Exc("TransportError", 0))
  ELSE IF r.response = "absent" THEN Raised(Exc("KeyError", 0))
  ELSE IF r.response = "fail" THEN RaiseFromResponse(r, "WarthogNodeDisableError")
  ELSE Returned(RetBool(TRUE))

NodeStatusSend(r) ==
  IF r.kind = "transport" THEN Raised(Exc("TransportError", 0))
  ELSE IF ~r.has_key THEN RaiseFromResponse(r, "WarthogNodeStatusError")
  ELSE IF r.val # 0 THEN Returned(RetStatus(STATUS_ENABLED))
  ELSE Returned(RetStatus(STATUS_DISABLED))

NodeActiveConnectionsSend(r) ==
  IF r.kind = "transport" THEN Raised(Exc("TransportError", 0))
  ELSE IF ~r.has_key THEN RaiseFromResponse(r, "WarthogNodeStatusError")
  ELSE Returned(RetConns(r.val))

\* ------------------------------------------------------------ state
\* call: the facade operation in progress (its arguments, its position, its
\* locals) together with a record of what it has sent so far.
\* nextToken: the next session id the remote hands out.
\* closed: the session ids for which a session-end request has been sent.
\* probe: one command object, the reply it is given and what send() makes of it.
\* scope: a disabled_context in progress.
\* calls: the facade operations of several callers of one client instance.
VARIABLES call, nextToken, closed, probe, scope, calls

vars == <<call, nextToken, closed, probe, scope, calls>>

\* what the facade operations of one caller leave alone
others == <<probe, scope, calls>>

Ops == {"get_status", "get_connections", "disable_server", "enable_server"}

MutatingOps == {"disable_server", "enable_server"}

\* what the caller keeps of the call before this one
NoPrev ==
  [op |-> "none", max_retries |-> 0, outcome |-> "none", ret |-> NoRet,
   n_mut |-> 0, n_sleep |-> 0, steady |-> FALSE]

IdleCall(n, prev) ==
  [op |-> "none", max_retries |-> 0, pc |-> "idle", callNo |-> n, prev |-> prev,
   session |-> 0, retries |-> 0, exc |-> NoExc, ret |-> NoRet, outcome |-> "none",
   n_start |-> 0, n_end |-> 0, end_token |-> 0, n_mut |-> 0, n_poll |-> 0,
   n_final |-> 0, n_sleep |-> 0, n_transient |-> 0, all_ok |-> TRUE,
   poll_hits |-> 0, poll_failed |-> FALSE, final_read |-> "none",
   mut_ok |-> FALSE, mut_exc |-> NoExc, raised_from |-> "none", end_ok |-> FALSE,
   n_cmd |-> 0, last_token |-> 0, body_exc |-> NoExc]

\* the callers sharing one client instance: two threads, the least number
\* whose calls can interleave
Callers == {"t1", "t2"}

NoProbe == [cmd |-> "none", reply |-> TransportFailure, out |-> Raised(NoExc)]

\* no disabled_context entered
NoScope ==
  [pc |-> "idle", status |-> "none", is_in_lb |-> FALSE, body |-> "none",
   outcome |-> "none", n_status |-> 0, n_disable |-> 0, n_enable |-> 0,
   disable_before_body |-> 0, enable_before_body |-> 0,
   disable_cmds |-> 0, enable_cmds |-> 0, disable_ret |-> NoRet,
   exc |-> NoExc]

Init ==
  /\ call = IdleCall(0, NoPrev)
  /\ nextToken = 1
  /\ closed = {}
  /\ probe = NoProbe
  /\ scope = NoScope
  /\ calls = [p \in Callers |-> IdleCall(0, NoPrev)]

\* ------------------------------------------------------------ client.py
\* except WarthogApiError: the exceptions _try_repeatedly catches
IsApiError(e) == e.type \in ApiErrorTypes

\* an API error whose code is in the transient set
IsTransient(e) == IsApiError(e) /\ e.api_code \in TRANSIENT_ERRORS

\* the budget test gives up one attempt early
ShouldRaiseOffByOne(e, retries, max_retries) ==
  \/ ~IsApiError(e)
  \/ e.api_code \notin TRANSIENT_ERRORS
  \/ retries + 1 >= max_retries

\* _try_repeatedly: an exception of method() leaves the loop when it is not
\* caught, when its code is not transient, or when the budget is used up
ShouldRaise(e, retries, max_retries) ==
  \/ ~IsApiError(e)
  \/ e.api_code \notin TRANSIENT_ERRORS
  \/ retries >= max_retries

\* the loops test the default budget instead of the argument
LoopContinuesDefault(retries, max_retries) == retries < 5

\* while retries < max_retries, of both waiting loops
LoopContinues(retries, max_retries) == retries < max_retries

\* a single remaining connection counts as drained
ConnectionsDrainedLoose(conns) == conns <= 1

\* if conns == 0: break
ConnectionsDrained(conns) == conns = 0

\* the comparison inverted
StatusIsEnabledInverted(status) == status # STATUS_ENABLED

\* if status == STATUS_ENABLED: break
StatusIsEnabled(status) == status = STATUS_ENABLED

\* the constant of the other operation
DisableResultWrong(status) == STATUS_ENABLED = status

\* return STATUS_DISABLED == status.send()
DisableResult(status) == STATUS_DISABLED = status

\* enable_server reports success whatever the status read says
EnableResultAlways(status) == TRUE

\* return STATUS_ENABLED == status.send()
EnableResult(status) == STATUS_ENABLED = status

\* the finally clause without its test
SessionWasStartedAlways(session) == TRUE

\* finally: if session is not None
SessionWasStarted(session) == session # 0

\* a failure of end_cmd.send() is swallowed
ExcAfterFinallySwallowed(inflight, endOut) == inflight

\* the exception that leaves the with block: one raised by end_cmd.send()
\* inside the finally clause replaces the one in flight
ExcAfterFinally(inflight, endOut) ==
  IF endOut.ok THEN inflight ELSE endOut.exc

\* disable / enable begin with their waiting loop
BodyEntryPollFirst(op) ==
  CASE op = "get_status" -> "get_status"
    [] op = "get_connections" -> "get_connections"
    [] op = "disable_server" -> "wait_for_connections"
    [] OTHER -> "wait_for_enable"

\* first request of the with block of each facade operation
BodyEntry(op) ==
  CASE op = "get_status" -> "get_status"
    [] op = "get_connections" -> "get_connections"
    [] OTHER -> "try_repeatedly"

\* the waiting loop entered without testing its condition
AfterMutateAlwaysPolls(op, max_retries) ==
  IF op = "disable_server" THEN "wait_for_connections" ELSE "wait_for_enable"

\* after _try_repeatedly returned: the waiting loop, or past it when its
\* condition is false at once
AfterMutate(op, max_retries) ==
  IF LoopContinues(0, max_retries)
  THEN (IF op = "disable_server" THEN "wait_for_connections" ELSE "wait_for_enable")
  ELSE "final_status"

\* session_context without its try/finally: the exception leaves at once
RaiseInBodyNoFinally(c, e, from) ==
  [c EXCEPT !.exc = e, !.body_exc = e, !.raised_from = from, !.all_ok = FALSE,
            !.outcome = "raised", !.pc = "done"]

\* an exception raised in the with block travels to the finally clause
RaiseInBody(c, e, from) ==
  [c EXCEPT !.exc = e, !.body_exc = e, !.raised_from = from, !.all_ok = FALSE,
            !.pc = "session_end"]

\* the session id every command of the instance is built with is the one of
\* the first session
CommandTokenFirst(c, latest) == IF c.session = 0 THEN 0 ELSE 1

\* the session id is kept on the instance: the one handed out last
CommandTokenLatest(c, latest) == latest

\* the session id a node command is built with: the local variable bound by
\* "with self._session_context() as session"
CommandToken(c, latest) == c.session

\* a node command built with session id t has been sent
WithToken(c, t) == [c EXCEPT !.last_token = t]

\* a facade operation is called
InvokeStep(c, op, m) ==
  [IdleCall(c.callNo + 1, c.prev) EXCEPT !.op = op, !.max_retries = m,
                                          !.pc = "session_start"]

\* session_context up to the yield; a failed start leaves session None, the
\* finally clause sends nothing and the exception reaches the caller
SessionStartStep(c, r, tok) ==
  LET out == SessionStartSend([r EXCEPT !.val = tok])
      c1 == [c EXCEPT !.n_start = @ + 1]
  IN  IF out.ok
      THEN [c1 EXCEPT !.session = out.val, !.pc = BodyEntry(c.op)]
      ELSE IF SessionWasStarted(c1.session)
           THEN RaiseInBody(c1, out.exc, "session_start")
           ELSE [c1 EXCEPT !.exc = out.exc, !.raised_from = "session_start",
                           !.all_ok = FALSE, !.outcome = "raised", !.pc = "done"]

\* get_status: return cmd.send()
GetStatusStep(c, r) ==
  LET out == NodeStatusSend(r)
      c1 == [c EXCEPT !.n_cmd = @ + 1]
  IN  IF out.ok
      THEN [c1 EXCEPT !.ret = out.val, !.pc = "session_end"]
      ELSE RaiseInBody(c1, out.exc, "get_status")

\* get_connections: return cmd.send()
GetConnectionsStep(c, r) ==
  LET out == NodeActiveConnectionsSend(r)
      c1 == [c EXCEPT !.n_cmd = @ + 1]
  IN  IF out.ok
      THEN [c1 EXCEPT !.ret = out.val, !.pc = "session_end"]
      ELSE RaiseInBody(c1, out.exc, "get_connections")

\* the waiting loop goes on counting where _try_repeatedly stopped
WaitCounterCarriedOver(retries) == retries

\* retries = 0: the counter a waiting loop starts with, a local of its own
WaitCounterStart(retries) == 0

\* one round of _try_repeatedly(disable.send / enable.send, max_retries)
TryRepeatedlyStep(c, r) ==
  LET out == IF c.op = "disable_server" THEN NodeDisableSend(r) ELSE NodeEnableSend(r)
      c1 == [c EXCEPT !.n_mut = @ + 1]
  IN  IF out.ok
      THEN [c1 EXCEPT !.retries = WaitCounterStart(c.retries), !.mut_ok = TRUE,
                      !.pc = AfterMutate(c.op, c.max_retries)]
      ELSE LET c2 == [c1 EXCEPT !.all_ok = FALSE,
                                !.n_transient = IF IsTransient(out.exc) THEN @ + 1 ELSE @]
           IN  IF ShouldRaise(out.exc, c.retries, c.max_retries)
               THEN [RaiseInBody(c2, out.exc, "try_repeatedly") EXCEPT !.mut_exc = out.exc]
               ELSE [c2 EXCEPT !.n_sleep = @ + 1, !.retries = @ + 1]

\* a waiting loop that reports its exhausted budget as an error
WaitGaveUpRaising(c) ==
  [c EXCEPT !.exc = Exc("WarthogTimeoutError", 0), !.raised_from = c.pc,
            !.pc = "session_end"]

\* a waiting loop whose condition has become false ends without a word and
\* the operation goes on to its status read
WaitGaveUp(c) == [c EXCEPT !.pc = "final_status"]

\* no sleep after the last round the budget allows
SleepUnlessLast(c) ==
  LET c1 == [c EXCEPT !.retries = @ + 1]
  IN  IF LoopContinues(c1.retries, c1.max_retries) THEN [c1 EXCEPT !.n_sleep = @ + 1]
      ELSE WaitGaveUp(c1)

\* the round counted but the sleep left out
RetryWithoutSleep(c) ==
  LET c1 == [c EXCEPT !.retries = @ + 1]
  IN  IF LoopContinues(c1.retries, c1.max_retries) THEN c1
      ELSE WaitGaveUp(c1)

\* a round of a waiting loop that did not break: sleep, count, test again
SleepAndRetry(c) ==
  LET c1 == [c EXCEPT !.n_sleep = @ + 1, !.retries = @ + 1]
  IN  IF LoopContinues(c1.retries, c1.max_retries) THEN c1
      ELSE WaitGaveUp(c1)

\* one round of _wait_for_connections(active.send, max_retries)
WaitForConnectionsStep(c, r) ==
  LET out == NodeActiveConnectionsSend(r)
      c1 == [c EXCEPT !.n_poll = @ + 1,
                      !.poll_hits = IF out.ok /\ out.val.conns = 0 THEN @ + 1 ELSE @]
  IN  IF ~out.ok
      THEN [RaiseInBody(c1, out.exc, "wait_for_connections") EXCEPT !.poll_failed = TRUE]
      ELSE IF ConnectionsDrained(out.val.conns)
           THEN [c1 EXCEPT !.pc = "final_status"]
           ELSE SleepAndRetry(c1)

\* one round of _wait_for_enable(status.send, max_retries)
WaitForEnableStep(c, r) ==
  LET out == NodeStatusSend(r)
      c1 == [c EXCEPT !.n_poll = @ + 1,
                      !.poll_hits = IF out.ok /\ out.val.status = "enabled" THEN @ + 1 ELSE @]
  IN  IF ~out.ok
      THEN [RaiseInBody(c1, out.exc, "wait_for_enable") EXCEPT !.poll_failed = TRUE]
      ELSE IF StatusIsEnabled(out.val.status)
           THEN [c1 EXCEPT !.pc = "final_status"]
           ELSE SleepAndRetry(c1)

\* the value of the waiting loop returned in place of the status read
FinalStatusStepFromPoll(c, r) ==
  LET out == NodeStatusSend(r)
      c1 == [c EXCEPT !.n_final = @ + 1]
  IN  IF ~out.ok THEN RaiseInBody(c1, out.exc, "final_status")
      ELSE [c1 EXCEPT !.final_read = out.val.status,
                      !.ret = RetBool(c.poll_hits > 0),
                      !.pc = "session_end"]

\* the status read after the waiting loop and the value returned
FinalStatusStep(c, r) ==
  LET out == NodeStatusSend(r)
      c1 == [c EXCEPT !.n_final = @ + 1]
  IN  IF ~out.ok THEN RaiseInBody(c1, out.exc, "final_status")
      ELSE [c1 EXCEPT !.final_read = out.val.status,
                      !.ret = RetBool(IF c.op = "disable_server"
                                      THEN DisableResult(out.val.status)
                                      ELSE EnableResult(out.val.status)),
                      !.pc = "session_end"]

\* the finally clause of session_context, then the operation returns or raises
SessionEndStep(c, r) ==
  LET out == SessionEndSend(r)
      e == ExcAfterFinally(c.exc, out)
      c1 == [c EXCEPT !.n_end = @ + 1, !.end_token = c.session,
                      !.end_ok = out.ok, !.all_ok = @ /\ out.ok]
  IN  IF e = NoExc
      THEN [c1 EXCEPT !.outcome = "returned", !.pc = "done"]
      ELSE [c1 EXCEPT !.exc = e, !.ret = NoRet, !.outcome = "raised", !.pc = "done"]

\* every status read of the call returned 'enabled' and no command failed
Steady(c) ==
  c.all_ok /\ c.n_poll = c.poll_hits /\ c.final_read = STATUS_ENABLED

\* the caller has the result and is free to call again
ReturnStep(c) ==
  IdleCall(c.callNo,
           [op |-> c.op, max_retries |-> c.max_retries, outcome |-> c.outcome,
            ret |-> c.ret, n_mut |-> c.n_mut, n_sleep |-> c.n_sleep,
            steady |-> Steady(c)])

\* ------------------------------------------------------------ actions
Invoke ==
  /\ call.pc = "idle"
  /\ call.callNo < MaxCalls
  /\ \E op \in Ops, m \in 0..MaxRetries : call' = InvokeStep(call, op, m)
  /\ UNCHANGED <<nextToken, closed>>
  /\ UNCHANGED others

SessionStart ==
  /\ call.pc = "session_start"
  /\ \E r \in Replies({0}) :
       /\ call' = SessionStartStep(call, r, nextToken)
       /\ nextToken' = IF call'.session # 0 THEN nextToken + 1 ELSE nextToken
  /\ UNCHANGED closed
  /\ UNCHANGED others

GetStatus ==
  /\ call.pc = "get_status"
  /\ \E r \in Replies(0..1) : 
       call' = WithToken(GetStatusStep(call, r), CommandToken(call, nextToken - 1))
  /\ UNCHANGED <<nextToken, closed>>
  /\ UNCHANGED others

GetConnections ==
  /\ call.pc = "get_connections"
  /\ \E r \in Replies(0..MaxConns) : 
       call' = WithToken(GetConnectionsStep(call, r), CommandToken(call, nextToken - 1))
  /\ UNCHANGED <<nextToken, closed>>
  /\ UNCHANGED others

TryRepeatedly ==
  /\ call.pc = "try_repeatedly"
  /\ \E r \in Replies({0}) : 
       call' = WithToken(TryRepeatedlyStep(call, r), CommandToken(call, nextToken - 1))
  /\ UNCHANGED <<nextToken, closed>>
  /\ UNCHANGED others

WaitForConnections ==
  /\ call.pc = "wait_for_connections"
  /\ \E r \in Replies(0..MaxConns) : 
       call' = WithToken(WaitForConnectionsStep(call, r), CommandToken(call, nextToken - 1))
  /\ UNCHANGED <<nextToken, closed>>
  /\ UNCHANGED others

WaitForEnable ==
  /\ call.pc = "wait_for_enable"
  /\ \E r \in Replies(0..1) : 
       call' = WithToken(WaitForEnableStep(call, r), CommandToken(call, nextToken - 1))
  /\ UNCHANGED <<nextToken, closed>>
  /\ UNCHANGED others

FinalStatus ==
  /\ call.pc = "final_status"
  /\ \E r \in Replies(0..1) : 
       call' = WithToken(FinalStatusStep(call, r), CommandToken(call, nextToken - 1))
  /\ UNCHANGED <<nextToken, closed>>
  /\ UNCHANGED others

SessionEnd ==
  /\ call.pc = "session_end"
  /\ \E r \in Replies({0}) : call' = SessionEndStep(call, r)
  /\ closed' = closed \cup {call'.end_token}
  /\ UNCHANGED nextToken
  /\ UNCHANGED others

Return ==
  /\ call.pc = "done"
  /\ call' = ReturnStep(call)
  /\ UNCHANGED <<nextToken, closed>>
  /\ UNCHANGED others

Next ==
  \/ Invoke
  \/ SessionStart
  \/ GetStatus
  \/ GetConnections
  \/ TryRepeatedly
  \/ WaitForConnections
  \/ WaitForEnable
  \/ FinalStatus
  \/ SessionEnd
  \/ Return

Spec == Init /\ [][Next]_vars

Done == call.pc = "done"

IsMutating == call.op \in MutatingOps

PollPhases == {"wait_for_connections", "wait_for_enable"}

\* ------------------------------------------------ one command at a time
\* A command object is given a reply and send() is applied to it.
InitCmd ==
  /\ call = IdleCall(0, NoPrev)
  /\ nextToken = 1
  /\ closed = {}
  /\ scope = NoScope
  /\ calls = [p \in Callers |-> IdleCall(0, NoPrev)]
  /\ probe \in [cmd : {"none"}, reply : Replies(0..MaxConns), out : {Raised(NoExc)}]

\* SessionStartCommand(...).send() on the reply
SendSessionStart ==
  /\ probe.cmd = "none"
  /\ probe' = [probe EXCEPT !.cmd = "session_start", !.out = SessionStartSend(probe.reply)]
  /\ UNCHANGED <<call, nextToken, closed, scope, calls>>

\* SessionEndCommand(...).send() on the reply
SendSessionEnd ==
  /\ probe.cmd = "none"
  /\ probe' = [probe EXCEPT !.cmd = "session_end", !.out = SessionEndSend(probe.reply)]
  /\ UNCHANGED <<call, nextToken, closed, scope, calls>>

\* NodeEnableCommand(...).send() on the reply
SendNodeEnable ==
  /\ probe.cmd = "none"
  /\ probe' = [probe EXCEPT !.cmd = "node_enable", !.out = NodeEnableSend(probe.reply)]
  /\ UNCHANGED <<call, nextToken, closed, scope, calls>>

\* NodeDisableCommand(...).send() on the reply
SendNodeDisable ==
  /\ probe.cmd = "none"
  /\ probe' = [probe EXCEPT !.cmd = "node_disable", !.out = NodeDisableSend(probe.reply)]
  /\ UNCHANGED <<call, nextToken, closed, scope, calls>>

\* NodeStatusCommand(...).send() on the reply
SendNodeStatus ==
  /\ probe.cmd = "none"
  /\ probe' = [probe EXCEPT !.cmd = "node_status", !.out = NodeStatusSend(probe.reply)]
  /\ UNCHANGED <<call, nextToken, closed, scope, calls>>

\* NodeActiveConnectionsCommand(...).send() on the reply
SendNodeActiveConnections ==
  /\ probe.cmd = "none"
  /\ probe' = [probe EXCEPT !.cmd = "node_active_connections", !.out = NodeActiveConnectionsSend(probe.reply)]
  /\ UNCHANGED <<call, nextToken, closed, scope, calls>>

NextCmd ==
  \/ SendSessionStart
  \/ SendSessionEnd
  \/ SendNodeEnable
  \/ SendNodeDisable
  \/ SendNodeStatus
  \/ SendNodeActiveConnections

SpecCmd == InitCmd /\ [][NextCmd]_vars

\* ------------------------------------------------------ disabled_context
\* max_retries=5 of disable_server and enable_server, the budget of the
\* calls disabled_node_context makes
DefaultMaxRetries == 5

\* the entry test inverted into "always"
ScopeIsInLbAlways(status) == TRUE

\* is_in_lb = (status == warthog.core.STATUS_ENABLED)
ScopeIsInLb(status) == status = STATUS_ENABLED

\* the facade operation disabled_node_context calls next
ScopeCall(c, op, m) == InvokeStep(IdleCall(c.callNo, NoPrev), op, m)

\* an exception of a facade operation, or of the body, leaves the generator
ScopeRaised(sc, body, e) ==
  [sc EXCEPT !.pc = "done", !.outcome = "raised", !.body = body, !.exc = e]

\* what the body of the with statement raises when it fails
BodyError == Exc("BodyError", 0)

\* the exit code wrapped in a finally clause: it runs after a raise as well
ScopeEnablesAfterFinally(raises, is_in_lb, disable_ret) == is_in_lb

\* the node is enabled again only when disable_server had said true
ScopeEnablesAfterConverged(raises, is_in_lb, disable_ret) ==
  ~raises /\ is_in_lb /\ disable_ret = RetBool(TRUE)

\* the code after the yield runs when the body returned, there being no
\* try around the yield, and calls enable_server under is_in_lb alone
ScopeEnablesAfter(raises, is_in_lb, disable_ret) == ~raises /\ is_in_lb

\* with client.disabled_context(server): status = client.get_status(server)
ScopeEnter ==
  /\ scope.pc = "idle" /\ call.pc = "idle"
  /\ call' = ScopeCall(call, "get_status", 0)
  /\ scope' = [NoScope EXCEPT !.pc = "entry_status", !.n_status = 1]
  /\ UNCHANGED <<nextToken, closed, probe, calls>>

\* get_status is back: is_in_lb, then disable_server or the debug line
ScopeStatusReturned ==
  /\ scope.pc = "entry_status" /\ call.pc = "done"
  /\ IF call.outcome = "raised"
     THEN /\ scope' = ScopeRaised(scope, "none", call.exc)
          /\ call' = IdleCall(call.callNo, NoPrev)
     ELSE LET sc == [scope EXCEPT !.status = call.ret.status,
                                  !.is_in_lb = ScopeIsInLb(call.ret.status)]
          IN  IF sc.is_in_lb
              THEN /\ scope' = [sc EXCEPT !.pc = "entry_disable", !.n_disable = @ + 1]
                   /\ call' = ScopeCall(call, "disable_server", DefaultMaxRetries)
              ELSE /\ scope' = [sc EXCEPT !.pc = "body"]
                   /\ call' = IdleCall(call.callNo, NoPrev)
  /\ UNCHANGED <<nextToken, closed, probe, calls>>

\* disable_server is back (its value is dropped): yield
ScopeDisableReturned ==
  /\ scope.pc = "entry_disable" /\ call.pc = "done"
  /\ LET sc == [scope EXCEPT !.disable_cmds = @ + call.n_mut]
     IN  IF call.outcome = "raised"
         THEN scope' = ScopeRaised(sc, "none", call.exc)
         ELSE scope' = [sc EXCEPT !.pc = "body", !.disable_ret = call.ret]
  /\ call' = IdleCall(call.callNo, NoPrev)
  /\ UNCHANGED <<nextToken, closed, probe, calls>>

\* the body of the with statement runs and returns or raises; after a normal
\* exit: enable_server or the debug line
ScopeBody ==
  /\ scope.pc = "body"
  /\ \E raises \in BOOLEAN :
       LET sc == [scope EXCEPT !.disable_before_body = scope.n_disable,
                               !.enable_before_body = scope.n_enable]
       IN  IF ScopeEnablesAfter(raises, sc.is_in_lb, sc.disable_ret)
           THEN /\ scope' = [sc EXCEPT !.body = IF raises THEN "raised" ELSE "returned",
                                       !.exc = IF raises THEN BodyError ELSE NoExc,
                                       !.pc = "exit_enable", !.n_enable = @ + 1]
                /\ call' = ScopeCall(call, "enable_server", DefaultMaxRetries)
           ELSE IF raises
                THEN /\ scope' = ScopeRaised(sc, "raised", BodyError)
                     /\ UNCHANGED call
                ELSE /\ scope' = [sc EXCEPT !.body = "returned", !.pc = "done",
                                            !.outcome = "returned"]
                     /\ UNCHANGED call
  /\ UNCHANGED <<nextToken, closed, probe, calls>>

\* enable_server is back: the with statement is left
ScopeEnableReturned ==
  /\ scope.pc = "exit_enable" /\ call.pc = "done"
  /\ scope' = [scope EXCEPT !.enable_cmds = @ + call.n_mut, !.pc = "done",
                            !.outcome = call.outcome, !.exc = call.exc]
  /\ UNCHANGED <<call, nextToken, closed, probe, calls>>

NextScope ==
  \/ ScopeEnter
  \/ ScopeStatusReturned
  \/ ScopeDisableReturned
  \/ ScopeBody
  \/ ScopeEnableReturned
  \/ SessionStart
  \/ GetStatus
  \/ TryRepeatedly
  \/ WaitForConnections
  \/ WaitForEnable
  \/ FinalStatus
  \/ SessionEnd

SpecScope == Init /\ [][NextScope]_vars

\* ------------------------------------------- concurrent facade calls
\* Callers share one WarthogClient and one remote: the client keeps no
\* session state of its own, nextToken and closed belong to the remote.
\* Every caller makes one call, with a budget of ConcMaxRetries.
ConcMaxRetries == 1

\* what the remote answers in the concurrent runs: a well-formed reply, a
\* failed response, or nothing at all
ConcReplies(vals) ==
  {r \in Replies(vals) :
     \/ r.kind = "transport"
     \/ r.has_key /\ r.response = "OK"
     \/ ~r.has_key /\ r.response = "fail"}

ConcInvoke ==
  \E p \in Callers :
    /\ calls[p].pc = "idle" /\ calls[p].callNo = 0
    /\ \E op \in Ops : calls' = [calls EXCEPT ![p] = InvokeStep(@, op, ConcMaxRetries)]
    /\ UNCHANGED <<call, nextToken, closed, probe, scope>>

ConcSessionStart ==
  \E p \in Callers :
    /\ calls[p].pc = "session_start"
    /\ \E r \in ConcReplies({0}) :
         /\ calls' = [calls EXCEPT ![p] = SessionStartStep(@, r, nextToken)]
         /\ nextToken' = IF calls'[p].session # 0 THEN nextToken + 1 ELSE nextToken
    /\ UNCHANGED <<call, closed, probe, scope>>

ConcGetStatus ==
  \E p \in Callers :
    /\ calls[p].pc = "get_status"
    /\ \E r \in ConcReplies(0..1) :
         calls' = [calls EXCEPT
                     ![p] = WithToken(GetStatusStep(@, r), CommandToken(calls[p], nextToken - 1))]
    /\ UNCHANGED <<call, nextToken, closed, probe, scope>>

ConcGetConnections ==
  \E p \in Callers :
    /\ calls[p].pc = "get_connections"
    /\ \E r \in ConcReplies(0..1) :
         calls' = [calls EXCEPT
                     ![p] = WithToken(GetConnectionsStep(@, r), CommandToken(calls[p], nextToken - 1))]
    /\ UNCHANGED <<call, nextToken, closed, probe, scope>>

ConcTryRepeatedly ==
  \E p \in Callers :
    /\ calls[p].pc = "try_repeatedly"
    /\ \E r \in ConcReplies({0}) :
         calls' = [calls EXCEPT
                     ![p] = WithToken(TryRepeatedlyStep(@, r), CommandToken(calls[p], nextToken - 1))]
    /\ UNCHANGED <<call, nextToken, closed, probe, scope>>

ConcWaitForConnections ==
  \E p \in Callers :
    /\ calls[p].pc = "wait_for_connections"
    /\ \E r \in ConcReplies(0..1) :
         calls' = [calls EXCEPT
                     ![p] = WithToken(WaitForConnectionsStep(@, r), CommandToken(calls[p], nextToken - 1))]
    /\ UNCHANGED <<call, nextToken, closed, probe, scope>>

ConcWaitForEnable ==
  \E p \in Callers :
    /\ calls[p].pc = "wait_for_enable"
    /\ \E r \in ConcReplies(0..1) :
         calls' = [calls EXCEPT
                     ![p] = WithToken(WaitForEnableStep(@, r), CommandToken(calls[p], nextToken - 1))]
    /\ UNCHANGED <<call, nextToken, closed, probe, scope>>

ConcFinalStatus ==
  \E p \in Callers :
    /\ calls[p].pc = "final_status"
    /\ \E r \in ConcReplies(0..1) :
         calls' = [calls EXCEPT
                     ![p] = WithToken(FinalStatusStep(@, r), CommandToken(calls[p], nextToken - 1))]
    /\ UNCHANGED <<call, nextToken, closed, probe, scope>>

ConcSessionEnd ==
  \E p \in Callers :
    /\ calls[p].pc = "session_end"
    /\ \E r \in ConcReplies({0}) : calls' = [calls EXCEPT ![p] = SessionEndStep(@, r)]
    /\ closed' = closed \cup {calls'[p].end_token}
    /\ UNCHANGED <<call, nextToken, probe, scope>>

NextConc ==
  \/ ConcInvoke
  \/ ConcSessionStart
  \/ ConcGetStatus
  \/ ConcGetConnections
  \/ ConcTryRepeatedly
  \/ ConcWaitForConnections
  \/ ConcWaitForEnable
  \/ ConcFinalStatus
  \/ ConcSessionEnd

SpecConc == Init /\ [][NextConc]_vars

\* --------------------------------------------------------- termination
\* a request of the call in progress: every request returns, so the step
\* that waits for it is taken
CallStep ==
  \/ SessionStart
  \/ GetStatus
  \/ GetConnections
  \/ TryRepeatedly
  \/ WaitForConnections
  \/ WaitForEnable
  \/ FinalStatus
  \/ SessionEnd

\* the one call whose end is waited for
InvokeOnce == call.callNo = 0 /\ Invoke

NextLive == InvokeOnce \/ CallStep

SpecLive == Init /\ [][NextLive]_vars /\ WF_vars(CallStep)

\* session-start, node commands and session-end sent by the call so far
Requests(c) == c.n_start + c.n_mut + c.n_poll + c.n_final + c.n_end

\* ------------------------------------------------------------ C1
\* C1: in every facade operation whose session-start succeeded, no
\* session-end is sent while the operation is under way, and when the
\* operation has returned or raised exactly one session-end has been sent,
\* carrying the token of that session-start; also when a command inside the
\* session raised.
C1_SessionEndedExactlyOnce ==
  /\ call.n_end <= 1
  /\ (call.pc # "done" => call.n_end = 0)
  /\ (Done /\ call.session # 0 =>
        call.n_end = 1 /\ call.end_token = call.session)

\* a polling read of disable_server raised and the session was ended
C1_Witness ==
  /\ Done /\ call.op = "disable_server" /\ call.session # 0
  /\ call.raised_from = "wait_for_connections" /\ call.outcome = "raised"
  /\ call.n_end = 1

\* ------------------------------------------------------------ C2
\* C2: in disable_server / enable_server a transient failure of the mutating
\* command leaves the retry loop only when more than max_retries of them
\* occurred; once the command has succeeded no error of the mutating phase
\* is in flight or reaches the caller, the operation is in its polling loop
\* (entered when max_retries > 0) or past it, and unless a later read fails
\* it makes its final status check.
C2_TransientRetriedThenProceeds ==
  IsMutating =>
    /\ (IsTransient(call.mut_exc) => call.n_transient > call.max_retries)
    /\ (call.mut_ok =>
          /\ call.n_transient <= call.max_retries
          /\ call.mut_exc = NoExc
          /\ call.raised_from # "try_repeatedly"
          /\ call.exc.type \notin {"WarthogNodeDisableError", "WarthogNodeEnableError"}
          /\ call.pc \in PollPhases \cup {"final_status", "session_end", "done"}
          /\ (call.max_retries > 0 => call.n_poll >= 1 \/ call.pc \in PollPhases)
          /\ (call.pc \in {"session_end", "done"} /\ call.raised_from = "none"
                => call.n_final = 1))

\* max_retries transient failures, then success, and the operation returned
C2_Witness ==
  /\ Done /\ IsMutating /\ call.max_retries >= 1
  /\ call.n_transient = call.max_retries /\ call.mut_ok
  /\ call.n_poll >= 1 /\ call.n_final = 1 /\ call.outcome = "returned"

\* ------------------------------------------------------------ C3
\* C3: when the mutating command of disable_server / enable_server failed
\* with a transient error more than max_retries times, the operation raises
\* that transient error to its caller, having sent the command exactly
\* max_retries + 1 times and slept exactly max_retries times.
C3_ExhaustedTransientReachesCaller ==
  Done /\ IsMutating /\ call.n_transient > call.max_retries =>
    /\ call.n_mut = call.max_retries + 1
    /\ call.n_sleep = call.max_retries
    /\ call.outcome = "raised"
    /\ IsTransient(call.exc)
    /\ call.exc = call.mut_exc

\* ------------------------------------------------------------ C4
\* C4: when the mutating command of disable_server / enable_server failed
\* with an API error whose code is not transient, the command was not sent
\* again and no sleep followed (one send and one sleep per earlier transient
\* failure, plus the failing send), and that error is raised to the caller.
C4_PermanentErrorReachesCaller ==
  Done /\ IsMutating /\ IsApiError(call.mut_exc) /\ ~IsTransient(call.mut_exc) =>
    /\ call.n_mut = call.n_transient + 1
    /\ call.n_sleep = call.n_transient
    /\ call.n_poll = 0 /\ call.n_final = 0
    /\ call.outcome = "raised"
    /\ call.exc = call.mut_exc

\* ------------------------------------------------------------ C5
\* C5 as stated: once the mutating command has succeeded, the polling phase
\* never makes the operation raise, whatever the remote answers.
C5_PollingNeverRaises ==
  IsMutating /\ call.mut_ok => call.raised_from \notin PollPhases

\* C5 amended: once the mutating command has succeeded, the polling phase
\* makes the operation raise exactly when a polling read itself failed (and
\* then with the error of that read); the values the reads return, a budget
\* used up without convergence included, never raise.
C5_PollingRaisesOnlyOnFailedRead ==
  IsMutating =>
    /\ (call.raised_from \in PollPhases <=> call.poll_failed)
    /\ (call.raised_from \in PollPhases /\ call.pc = "session_end" =>
          call.exc.type \in {"WarthogNodeStatusError", "ValueError", "KeyError",
                             "TransportError"})
    /\ (call.mut_ok /\ ~call.poll_failed /\ call.pc = "final_status" =>
          call.exc = NoExc)

\* the budget ran out without convergence and the operation went on to its
\* status read and returned
C5_Witness ==
  /\ Done /\ IsMutating /\ call.max_retries >= 1
  /\ call.n_poll = call.max_retries /\ call.poll_hits = 0 /\ ~call.poll_failed
  /\ call.n_final = 1 /\ call.outcome = "returned"

\* ------------------------------------------------------------ C6
\* C6: when every command of disable_server succeeded, the operation returns
\* (does not raise) and its value is true exactly when the final status read
\* was 'disabled'; so also when the connection count never read 0.
C6_DisableReturnsFinalStatus ==
  Done /\ call.op = "disable_server" /\ call.all_ok =>
    /\ call.outcome = "returned"
    /\ call.n_final = 1
    /\ call.final_read \in {STATUS_ENABLED, STATUS_DISABLED}
    /\ call.ret = RetBool(call.final_read = STATUS_DISABLED)

\* the count never read 0 within the budget, the final status is 'disabled'
C6_Witness ==
  /\ Done /\ call.op = "disable_server" /\ call.all_ok
  /\ call.max_retries >= 1 /\ call.n_poll = call.max_retries /\ call.poll_hits = 0
  /\ call.ret = RetBool(TRUE)

\* ------------------------------------------------------------ C7
\* C7: when every command of enable_server succeeded, the operation returns
\* and its value is true exactly when the status read made after the
\* polling loop was 'enabled', whatever the polling reads showed.
C7_EnableReturnsRecheckedStatus ==
  Done /\ call.op = "enable_server" /\ call.all_ok =>
    /\ call.outcome = "returned"
    /\ call.n_final = 1
    /\ call.final_read \in {STATUS_ENABLED, STATUS_DISABLED}
    /\ call.ret = RetBool(call.final_read = STATUS_ENABLED)

\* the last polling read was 'enabled', the re-check read 'disabled'
C7_Witness ==
  /\ Done /\ call.op = "enable_server" /\ call.all_ok
  /\ call.poll_hits = 1 /\ call.final_read = STATUS_DISABLED
  /\ call.ret = RetBool(FALSE)

\* ------------------------------------------------------------ C8
\* C8: enable_server with max_retries >= 1, every command succeeding and
\* every status read returning 'enabled': the enable command is sent exactly
\* once, there is no sleep, the operation returns true; and a call that
\* follows such a call gives the same.
SteadyEnable ==
  Done /\ call.op = "enable_server" /\ call.max_retries >= 1 /\ Steady(call)

C8_EnableOnEnabledNode ==
  SteadyEnable =>
    /\ call.n_mut = 1 /\ call.n_sleep = 0 /\ call.n_poll = 1
    /\ call.outcome = "returned" /\ call.ret = RetBool(TRUE)
    /\ (call.prev.op = "enable_server" /\ call.prev.max_retries >= 1 /\ call.prev.steady =>
          /\ call.prev.outcome = call.outcome /\ call.prev.ret = call.ret
          /\ call.prev.n_mut = call.n_mut /\ call.prev.n_sleep = call.n_sleep)

\* the second of two such calls
C8_Witness ==
  /\ SteadyEnable /\ call.callNo = 2
  /\ call.prev.op = "enable_server" /\ call.prev.max_retries >= 1 /\ call.prev.steady

\* ------------------------------------------------------------ C9
\* C9: disable_server with max_retries = 0 (its session started) sends the disable command once
\* and never again (a transient failure leaves the retry loop un-retried and
\* the operation raises), makes no connection read and no sleep, and after a
\* successful disable makes one status read whose value it reports.
C9_DisableWithoutRetries ==
  call.op = "disable_server" /\ call.max_retries = 0 =>
    /\ call.n_mut <= 1 /\ call.n_poll = 0 /\ call.n_sleep = 0 /\ call.n_final <= 1
    /\ (call.pc \in {"session_end", "done"} /\ call.session # 0 => call.n_mut = 1)
    /\ (call.n_transient >= 1 =>
          /\ IsTransient(call.mut_exc) /\ call.n_mut = 1 /\ call.n_final = 0
          /\ (Done => call.outcome = "raised"))
    /\ (Done /\ call.mut_ok /\ call.raised_from = "none" => call.n_final = 1)
    /\ (Done /\ call.all_ok => call.ret = RetBool(call.final_read = STATUS_DISABLED))

\* one disable, no poll, the status read reported
C9_Witness ==
  /\ Done /\ call.op = "disable_server" /\ call.max_retries = 0 /\ call.all_ok
  /\ call.n_mut = 1 /\ call.n_final = 1 /\ call.outcome = "returned"

\* ------------------------------------------------------------ C10
\* C10: a convergence loop never makes more than max_retries + 1
\* observations of the polled value, and has ended by then.
C10_PollObservationsBounded ==
  IsMutating =>
    /\ call.n_poll <= call.max_retries + 1
    /\ (call.n_poll >= call.max_retries + 1 => call.pc \notin PollPhases)
    /\ (call.pc \in PollPhases => call.retries < call.max_retries)

\* a loop that never saw its target has ended with its budget used up
C10_Witness ==
  /\ IsMutating /\ call.pc = "final_status" /\ call.max_retries >= 1
  /\ call.poll_hits = 0 /\ ~call.poll_failed /\ call.n_poll = call.max_retries

\* ------------------------------------------------------------ C12
\* C12: when a command inside the session raised and the session-end sent
\* on exit failed as well, the failure that reaches the caller is the one
\* raised inside the session.
C12_OriginalFailureReachesCaller ==
  Done /\ call.body_exc # NoExc /\ call.n_end = 1 /\ ~call.end_ok =>
    call.outcome = "raised" /\ call.exc = call.body_exc

\* ------------------------------------------------------------ C13
\* C13: a facade operation sends at most one session-start; when it failed
\* the operation has raised that failure and sent nothing else: no
\* session-end, no node command, and it has not slept.
StartFailureTypes ==
  {"WarthogAuthFailureError", "ValueError", "KeyError", "TransportError"}

C13_FailedStartSendsNothingElse ==
  /\ call.n_start <= 1
  /\ (call.n_start = 1 /\ call.session = 0 =>
        /\ call.pc = "done" /\ call.outcome = "raised"
        /\ call.raised_from = "session_start"
        /\ call.exc.type \in StartFailureTypes
        /\ call.n_end = 0 /\ call.n_cmd = 0 /\ call.n_mut = 0
        /\ call.n_poll = 0 /\ call.n_final = 0 /\ call.n_sleep = 0)

\* authentication failed with a transient code under a positive budget
C13_Witness ==
  /\ Done /\ IsMutating /\ call.max_retries >= 1 /\ call.session = 0
  /\ call.exc.type = "WarthogAuthFailureError" /\ IsTransient(call.exc)
  /\ call.n_start = 1 /\ call.n_end = 0 /\ call.n_mut = 0

\* ------------------------------------------------------------ C14
\* C14: every node command is sent with the session id its own facade
\* operation got from its session-start, at a moment when no session-end
\* has been sent for that id; a session-end is sent for an id at most once,
\* and an id handed out by a session-start has not been ended before.
NodeCmds(c) == c.n_cmd + c.n_mut + c.n_poll + c.n_final

C14_NoCommandOnEndedSession ==
  [][ /\ (call'.pc # "idle" /\ NodeCmds(call') > NodeCmds(call) =>
            /\ call.n_start = 1 /\ call.session # 0
            /\ call'.last_token = call.session
            /\ call'.last_token \notin closed)
      /\ (call'.n_end > call.n_end =>
            call'.end_token = call.session /\ call'.end_token \notin closed)
      /\ (call'.session # call.session /\ call'.session # 0 =>
            call'.session \notin closed)
    ]_vars

\* a node command of the second operation, sent after the first operation's
\* session was ended
C14_Witness ==
  /\ call.callNo = 2 /\ closed # {} /\ NodeCmds(call) > 0
  /\ call.last_token = call.session /\ call.session \notin closed

\* ------------------------------------------------------------ C19
\* C19: when the mutating command of disable_server / enable_server failed
\* with something that is not an API error (no response section, transport
\* failure), the command was not sent again, no sleep followed, and that
\* failure reaches the caller unchanged.
C19_UnclassifiedFailureReachesCaller ==
  Done /\ IsMutating /\ call.mut_exc # NoExc /\ ~IsApiError(call.mut_exc) =>
    /\ call.n_mut = call.n_transient + 1
    /\ call.n_sleep = call.n_transient
    /\ call.outcome = "raised"
    /\ call.exc = call.mut_exc

\* ------------------------------------------------------------ C20
\* C20: in disable_server / enable_server a mutating command is sent only
\* inside a started session, a polling read and the final status check only
\* after the mutating command succeeded, the final status check once and
\* after the last polling read, nothing but session-end after it, nothing
\* at all after session-end; when the mutating phase raised there is neither
\* a polling read nor a final status check.
C20_Order ==
  IsMutating =>
    /\ (call.n_mut > 0 => call.n_start = 1 /\ call.session # 0)
    /\ (call.n_poll > 0 => call.mut_ok)
    /\ (call.n_final > 0 => call.mut_ok /\ call.n_final = 1)
    /\ (call.mut_exc # NoExc => ~call.mut_ok /\ call.n_poll = 0 /\ call.n_final = 0)
    /\ (call.n_end = 1 => call.pc = "done")

C20_Step ==
  IsMutating /\ call'.pc # "idle" =>
    /\ (call.mut_ok => call'.n_mut = call.n_mut)
    /\ (call.n_final = 1 =>
          /\ NodeCmds(call') = NodeCmds(call) /\ call'.n_start = call.n_start
          /\ call'.n_sleep = call.n_sleep)
    /\ (call.n_end = 1 => call' = call)

C20_PhaseOrder == [](C20_Order) /\ [][C20_Step]_vars

\* a retried mutating command, a polling read, the status check, session-end
C20_Witness ==
  /\ Done /\ IsMutating /\ call.n_transient >= 1 /\ call.mut_ok
  /\ call.n_poll >= 1 /\ call.n_final = 1 /\ call.n_end = 1

\* ------------------------------------------------------------ C11
\* C11: in a disabled_context whose entry status is 'enabled', one
\* disable_server call and no enable_server call has been made when the body
\* runs, and after a body that exited normally exactly one enable_server
\* call is made, never before; with any other entry status no disable_server
\* or enable_server call is made and no disable or enable command is sent.
C11_ScopeCommands ==
  /\ scope.n_disable <= 1 /\ scope.n_enable <= 1
  /\ (scope.n_enable = 1 => scope.body = "returned")
  /\ (scope.status = STATUS_ENABLED =>
        /\ scope.n_disable = 1
        /\ (scope.pc = "body" \/ scope.body # "none" =>
              /\ scope.disable_cmds >= 1
              /\ (scope.body # "none" =>
                    scope.disable_before_body = 1 /\ scope.enable_before_body = 0))
        /\ (scope.body = "returned" => scope.n_enable = 1)
        /\ (scope.pc = "done" /\ scope.outcome = "returned" => scope.enable_cmds >= 1))
  /\ (scope.status \notin {"none", STATUS_ENABLED} =>
        /\ scope.n_disable = 0 /\ scope.n_enable = 0
        /\ scope.disable_cmds = 0 /\ scope.enable_cmds = 0
        /\ call.op \notin MutatingOps /\ call.n_mut = 0)

\* entered on an enabled node and left normally: one disable before the
\* body, one enable after it
C11_Witness ==
  /\ scope.pc = "done" /\ scope.status = STATUS_ENABLED /\ scope.body = "returned"
  /\ scope.outcome = "returned"
  /\ scope.n_disable = 1 /\ scope.n_enable = 1

\* ------------------------------------------------------------ C16
\* C16: disable_server whose disable command succeeded at once: the
\* connection loop stops at the first read of 0 and not before its budget
\* is used up, so with k non-zero reads and then 0, k < max_retries, it has
\* made k + 1 reads and k sleeps; with every command succeeding and the
\* final status 'disabled' the call then returns true.
C16_DrainStopsAtFirstZero ==
  call.op = "disable_server" /\ call.mut_ok /\ call.n_transient = 0 =>
    /\ call.poll_hits <= 1
    /\ (call.poll_hits = 1 =>
          /\ call.pc \notin PollPhases
          /\ call.n_poll <= call.max_retries
          /\ call.n_sleep = call.n_poll - 1)
    /\ (call.poll_hits = 0 /\ ~call.poll_failed /\ call.n_poll < call.max_retries =>
          call.pc = "wait_for_connections" /\ call.n_sleep = call.n_poll)
    /\ (Done /\ call.all_ok /\ call.poll_hits = 1 /\ call.final_read = STATUS_DISABLED =>
          call.outcome = "returned" /\ call.ret = RetBool(TRUE))

\* two non-zero reads, then 0, under a budget of 5: three reads, two sleeps
C16_Witness ==
  /\ Done /\ call.op = "disable_server" /\ call.all_ok /\ call.max_retries = 5
  /\ call.n_poll = 3 /\ call.poll_hits = 1 /\ call.n_sleep = 2
  /\ call.final_read = STATUS_DISABLED /\ call.ret = RetBool(TRUE)

\* ------------------------------------------------------------ C17
\* C17: enable_server whose enable command succeeded at once: the status
\* loop stops at the first read of 'enabled' and not before its budget is
\* used up, so with k other reads and then 'enabled', k < max_retries, it
\* has slept k times; with every command succeeding and the re-check
\* reading 'enabled' the call then returns true.
C17_EnableStopsAtFirstEnabled ==
  call.op = "enable_server" /\ call.mut_ok /\ call.n_transient = 0 =>
    /\ call.poll_hits <= 1
    /\ (call.poll_hits = 1 =>
          /\ call.pc \notin PollPhases
          /\ call.n_poll <= call.max_retries
          /\ call.n_sleep = call.n_poll - 1)
    /\ (call.poll_hits = 0 /\ ~call.poll_failed /\ call.n_poll < call.max_retries =>
          call.pc = "wait_for_enable" /\ call.n_sleep = call.n_poll)
    /\ (Done /\ call.all_ok /\ call.poll_hits = 1 /\ call.final_read = STATUS_ENABLED =>
          call.outcome = "returned" /\ call.ret = RetBool(TRUE))

\* 'disabled', 'disabled', 'enabled' under a budget of 5: two sleeps
C17_Witness ==
  /\ Done /\ call.op = "enable_server" /\ call.all_ok /\ call.max_retries = 5
  /\ call.n_poll = 3 /\ call.poll_hits = 1 /\ call.n_sleep = 2
  /\ call.final_read = STATUS_ENABLED /\ call.ret = RetBool(TRUE)

\* ------------------------------------------------------------ C18
\* C18 as stated: every JSON reply without the 'server' key makes the status
\* command raise WarthogNodeStatusError with the code of the reply.
C18_MissingServerAlwaysStatusError ==
  probe.cmd = "node_status" /\ probe.reply.kind = "json" /\ ~probe.reply.has_key =>
    /\ ~probe.out.ok
    /\ probe.out.exc = Exc("WarthogNodeStatusError", probe.reply.code)

\* C18 amended: a JSON reply without the 'server' key makes the status
\* command raise; WarthogNodeStatusError with the code of the error section
\* when the response section has status 'fail', ValueError (the malformed
\* response condition) when the response section has another status, and
\* KeyError when there is no response section.
C18_MissingServerByEnvelope ==
  probe.cmd = "node_status" /\ probe.reply.kind = "json" /\ ~probe.reply.has_key =>
    /\ ~probe.out.ok
    /\ (probe.reply.response = "fail" =>
          probe.out.exc = Exc("WarthogNodeStatusError", probe.reply.code))
    /\ (probe.reply.response = "OK" => probe.out.exc = Exc("ValueError", 0))
    /\ (probe.reply.response = "absent" => probe.out.exc = Exc("KeyError", 0))

\* no 'server' key, a failed response section with code 2
C18_Witness ==
  /\ probe.cmd = "node_status" /\ probe.reply.kind = "json" /\ ~probe.reply.has_key
  /\ probe.reply.response = "fail" /\ probe.reply.code = 2
  /\ probe.out.exc = Exc("WarthogNodeStatusError", 2)

\* ------------------------------------------------------------ C15
\* C15: under every interleaving of the callers' facade calls each call
\* opens at most one session and ends at most one, a finished call that
\* opened a session has ended it once; its node commands carry the token of
\* its own session and the token it ends is its own; no token belongs to
\* two calls; and the retry counter of each call counts that call's own
\* retried commands or its own polling rounds only.
C15_CallersShareNothing ==
  \A p \in Callers :
    LET c == calls[p]
    IN  /\ c.n_start <= 1 /\ c.n_end <= 1
        /\ (c.pc = "done" /\ c.session # 0 => c.n_end = 1)
        /\ (c.session = 0 => c.n_end = 0 /\ NodeCmds(c) = 0)
        /\ (NodeCmds(c) > 0 => c.last_token = c.session)
        /\ (c.n_end = 1 => c.end_token = c.session)
        /\ (c.pc = "try_repeatedly" => c.retries = c.n_transient)
        /\ (c.pc \in PollPhases => c.retries = c.n_poll)
        /\ \A q \in Callers \ {p} :
             c.session # 0 =>
               /\ calls[q].session # c.session
               /\ calls[q].last_token # c.session
               /\ calls[q].end_token # c.session

\* two calls in their sessions at the same time, one retrying its command
\* after a transient failure, the other through a polling round
C15_Witness ==
  \E p, q \in Callers :
    /\ p # q
    /\ calls[p].pc = "try_repeatedly" /\ calls[p].retries = 1
    /\ calls[q].pc = "final_status" /\ calls[q].n_poll = 1 /\ calls[q].poll_hits = 0
    /\ calls[p].session # 0 /\ calls[q].session # 0
    /\ calls[p].last_token = calls[p].session
    /\ calls[q].last_token = calls[q].session

\* ------------------------------------------------------------ C21
\* C21: in one disable_server / enable_server call the retries of the
\* mutating command and the rounds of the waiting loop are counted apart
\* and each against max_retries: the waiting loop counts its own rounds
\* only, whatever number of transient failures the command went through,
\* and gives up only after max_retries rounds; the command is retried up to
\* max_retries times and before any polling read.
C21_BudgetsIndependent ==
  IsMutating =>
    /\ (call.pc = "try_repeatedly" =>
          call.retries = call.n_transient /\ call.retries <= call.max_retries
          /\ call.n_poll = 0)
    /\ (call.pc \in PollPhases =>
          call.retries = call.n_poll /\ call.retries < call.max_retries)
    /\ call.n_poll <= call.max_retries
    /\ (call.mut_ok => call.n_transient <= call.max_retries)
    /\ (call.pc = "final_status" /\ call.poll_hits = 0 /\ ~call.poll_failed =>
          call.n_poll = call.max_retries)

\* the command used up its retries and the waiting loop still made all of
\* its rounds
C21_Witness ==
  /\ Done /\ IsMutating /\ call.max_retries = MaxRetries /\ call.mut_ok
  /\ call.n_transient = call.max_retries
  /\ call.n_poll = call.max_retries /\ call.poll_hits = 0

\* ------------------------------------------------------------ C22
\* the requests of one disable_server / enable_server call are bounded by
\* its budget: at most max_retries + 1 sends of the command, max_retries
\* polling reads, one session-start, one final status read, one session-end
C22_RequestsBounded ==
  IsMutating =>
    /\ call.n_start <= 1 /\ call.n_final <= 1 /\ call.n_end <= 1
    /\ call.n_mut <= call.max_retries + 1
    /\ call.n_poll <= call.max_retries
    /\ Requests(call) <= 2 * call.max_retries + 4

\* C22: whatever the remote answers, as long as every request returns, a
\* disable_server / enable_server call that has begun comes to its end, by
\* return or raise, and its requests stay within 2 * max_retries + 4.
C22_Terminates ==
  /\ [](C22_RequestsBounded)
  /\ ((IsMutating /\ call.pc = "session_start") ~> Done)

\* a call that used every request its budget allows
C22_Witness ==
  /\ Done /\ IsMutating /\ call.max_retries = MaxRetries
  /\ Requests(call) = 2 * call.max_retries + 4

\* ------------------------------------------------------------ C23
\* C23: enable_server with max_retries = 0 sends the enable command once,
\* a failure of it, transient or not, leaving _try_repeatedly at once;
\* it makes no polling read and does not sleep; after a successful enable
\* command it reads the status once and returns whether it is 'enabled'.
C23_EnableWithoutRetries ==
  call.op = "enable_server" /\ call.max_retries = 0 =>
    /\ call.n_mut <= 1 /\ call.n_poll = 0 /\ call.n_sleep = 0 /\ call.n_final <= 1
    /\ (call.pc \in {"final_status", "session_end", "done"} /\ call.session # 0 =>
          call.n_mut = 1)
    /\ (call.n_mut = 1 /\ ~call.mut_ok /\ call.pc # "try_repeatedly" =>
          call.body_exc = call.mut_exc /\ call.mut_exc # NoExc /\ call.n_final = 0)
    /\ (call.mut_ok /\ call.pc \in {"session_end", "done"} => call.n_final = 1)
    /\ (Done /\ call.outcome = "returned" =>
          call.ret = RetBool(call.final_read = STATUS_ENABLED))

\* the enable command accepted, the one status read says 'disabled': false
C23_Witness ==
  /\ Done /\ call.op = "enable_server" /\ call.max_retries = 0
  /\ call.outcome = "returned" /\ call.n_mut = 1 /\ call.n_poll = 0
  /\ call.n_sleep = 0 /\ call.n_final = 1
  /\ call.final_read = STATUS_DISABLED /\ call.ret = RetBool(FALSE)

\* ------------------------------------------------------------ C24
\* C24: in a disabled_context entered on an enabled node, a body that
\* raises is followed by no enable_server call and its exception is the one
\* that leaves the with statement; when the entry status read or the entry
\* disable_server raises, the body is not run, no enable_server call is
\* made and that exception leaves the with statement.
C24_NoEnableAfterRaise ==
  /\ (scope.body = "raised" =>
        /\ scope.pc = "done" /\ scope.outcome = "raised" /\ scope.exc = BodyError
        /\ scope.n_enable = 0 /\ scope.enable_cmds = 0
        /\ call.op # "enable_server")
  /\ (scope.pc = "done" /\ scope.body = "none" =>
        /\ scope.outcome = "raised" /\ scope.exc # NoExc /\ scope.exc # BodyError
        /\ scope.n_enable = 0 /\ scope.enable_cmds = 0
        /\ scope.disable_before_body = 0)
  /\ (scope.pc \in {"entry_status", "entry_disable"} =>
        scope.body = "none" /\ scope.n_enable = 0)

\* entered on an enabled node, disabled it, the body raised: left so
C24_Witness ==
  /\ scope.pc = "done" /\ scope.status = STATUS_ENABLED /\ scope.n_disable = 1
  /\ scope.disable_cmds >= 1 /\ scope.body = "raised" /\ scope.exc = BodyError
  /\ scope.n_enable = 0

\* ------------------------------------------------------------ C27
\* C27: disabled_context reads the status once, at entry, and after a body
\* that exited normally calls enable_server exactly when that status was
\* 'enabled': it does so when the entry disable_server had returned false,
\* and whatever the remote reports afterwards; with another entry status no
\* enable_server call is made; no get_status call is made at exit.
C27_ExitDecidedAtEntry ==
  /\ scope.n_status <= 1
  /\ (scope.pc \in {"exit_enable", "done"} => call.op # "get_status")
  /\ (scope.status # "none" => scope.is_in_lb = (scope.status = STATUS_ENABLED))
  /\ (scope.body = "returned" =>
        /\ (scope.status = STATUS_ENABLED => scope.n_enable = 1)
        /\ (scope.status # STATUS_ENABLED => scope.n_enable = 0 /\ scope.pc = "done"))
  /\ (scope.pc = "exit_enable" => call.op = "enable_server")

\* the entry disable_server did not converge and said false; the body
\* returned and enable_server was called all the same, the node then being
\* reported 'disabled'
C27_Witness ==
  /\ scope.pc = "done" /\ scope.status = STATUS_ENABLED
  /\ scope.disable_ret = RetBool(FALSE) /\ scope.body = "returned"
  /\ scope.n_enable = 1 /\ scope.enable_cmds >= 1
  /\ call.op = "enable_server" /\ call.final_read = STATUS_DISABLED

\* ------------------------------------------------------------ C25
\* C25: when session-start and every node command of a facade operation
\* succeeded and session-end fails, the operation raises the failure of
\* session-end (WarthogAuthCloseError with the code of the response when the
\* remote answered 'fail') and returns no value; session-end has been sent
\* once, whatever the code, a transient one included.
C25_CloseFailureRaised ==
  /\ call.n_end <= 1
  /\ (Done /\ call.session # 0 /\ call.body_exc = NoExc /\ call.n_transient = 0
      /\ ~call.end_ok =>
        /\ call.outcome = "raised" /\ call.ret = NoRet
        /\ call.n_end = 1
        /\ call.exc \in {SessionEndSend(r).exc :
                            r \in {q \in Replies({0}) : ~SessionEndSend(q).ok}}
        /\ (IsApiError(call.exc) =>
              call.exc.type = "WarthogAuthCloseError" /\ call.exc.api_code \in Codes))

\* get_status read 'enabled', then session-end failed with a transient code:
\* no retry, no value, the close failure raised
C25_Witness ==
  /\ Done /\ call.op = "get_status" /\ call.n_cmd = 1 /\ call.body_exc = NoExc
  /\ ~call.end_ok /\ call.n_end = 1 /\ call.outcome = "raised"
  /\ call.exc.type = "WarthogAuthCloseError" /\ call.exc.api_code \in TRANSIENT_ERRORS

\* ------------------------------------------------------------ C26
\* C26: in the waiting loops every read that does not show the target value
\* is followed by a sleep, the last one the budget allows included: a loop
\* that never sees the target makes max_retries reads and max_retries
\* sleeps, none of either for max_retries = 0, and the only read after it
\* is the one final status read.
C26_SleepAfterEveryMiss ==
  IsMutating /\ call.mut_ok =>
    /\ call.n_poll <= call.max_retries
    /\ call.n_sleep - call.n_transient
         = call.n_poll - call.poll_hits - (IF call.poll_failed THEN 1 ELSE 0)
    /\ (call.pc \notin PollPhases /\ call.poll_hits = 0 /\ ~call.poll_failed =>
          /\ call.n_poll = call.max_retries
          /\ call.n_sleep - call.n_transient = call.max_retries)
    /\ call.n_final <= 1
    /\ (call.n_final = 1 => call.pc \in {"session_end", "done"})

\* the target never seen: MaxRetries reads, MaxRetries sleeps, one final read
C26_Witness ==
  /\ Done /\ IsMutating /\ call.mut_ok /\ call.max_retries = MaxRetries
  /\ call.n_transient = 0 /\ call.poll_hits = 0 /\ ~call.poll_failed
  /\ call.n_poll = MaxRetries /\ call.n_sleep = MaxRetries /\ call.n_final = 1

====
